---- MODULE Spec2Model ----
(***************************************************************************)
(* Model of server.js: a Fastify relay that keeps one OAuth access token   *)
(* in the process-wide variable storedToken and forwards requests to the   *)
(* Calendly API with that token attached.                                  *)
(*                                                                         *)
(* JavaScript values are written as strings: JSON text for request-body    *)
(* fields ("true" is the boolean, "\"true\"" the string), and the text a    *)
(* template literal prints for null and undefined.  Every handler is an    *)
(* async function: it runs synchronously up to its first await (the Start  *)
(* actions), and resumes when the upstream response has been received and  *)
(* parsed (the Resume actions).  Between the two, any other handler may    *)
(* run.                                                                    *)
(***************************************************************************)
EXTENDS Integers, Sequences, FiniteSets, Bags, TLC

VARIABLES
  storedToken,  \* server.js:15, the only shared mutable state
  inflight,     \* bag of requests suspended at `await fetch(...)`
  lastReply,    \* the last HTTP reply sent to a caller, with what caused it
  lastOkTok,    \* history: access token of the last exchange that returned one
  lastCb        \* history: how the last completed /callback ended

vars == <<storedToken, inflight, lastReply, lastOkTok, lastCb>>

\* ---------------------------------------------------------------- bounds

\* Requests that may be suspended on an upstream call at the same time.
MaxInFlight == 2

\* ------------------------------------------------------------ JS values

Null == "null"
Undefined == "undefined"
Absent == "<absent>"        \* a property that the object does not have

\* Access tokens the provider may issue.
Tokens == {"t1", "t2"}

\* JSON text of the values `active` may arrive with.
JTrue == "true"
JFalse == "false"
JStrTrue == "\"true\""
JStrFalse == "\"false\""

\* Reading a property: a missing property reads as undefined.
Get(v) == IF v = Absent THEN Undefined ELSE v

\* Mutants of IsFalsy: a strict comparison with one of the two empty values.
IsFalsyOnlyNull(v) == v = Null
IsFalsyOnlyUndefined(v) == v = Undefined

\* `!v` for the values a token or a query parameter can take.
IsFalsy(v) == v \in {Null, Undefined, ""}

\* Mutant of Bearer: the separating space is lost.
BearerNoSpace(tok) == "Bearer" \o tok

\* The template literal `Bearer ${tok}`.
Bearer(tok) == "Bearer " \o tok

NoHeader == "<none>"

\* -------------------------------------------------------- JSON documents

Doc(a, m, e) == [access_token |-> a, message |-> m, error |-> e]
NoDoc == Doc(Absent, Absent, Absent)
ErrorDoc(msg) == Doc(Absent, Absent, msg)

\* Bodies the token endpoint may answer with: a grant, or a rejection.
TokenDocs == {Doc(t, Absent, Absent) : t \in Tokens} \cup {Doc(Absent, "invalid_grant", Absent)}
\* Bodies the API may answer with (opaque to the relay).
ApiDocs == {Doc(Absent, "m1", Absent), Doc(Absent, "m2", Absent)}

\* Inbound request bodies.
Body(p, a, n) == [present |-> p, active |-> a, name |-> n]
NoBody == Body(FALSE, Absent, Absent)
Actives == {Absent, JTrue, JFalse, JStrTrue, JStrFalse}
CreateBodies == {Body(TRUE, a, "n1") : a \in Actives} \cup {NoBody}
UpdateBodies == {Body(TRUE, Absent, "n2")}

\* Statuses an upstream answer with a JSON body may carry, and the status of
\* an answer whose body is not JSON (a gateway's HTML error page).
Statuses == {200, 201, 422}
UnparsedStatuses == {502}

\* response.ok of node-fetch.
ResponseOk(status) == status >= 200 /\ status <= 299

\* What an upstream call can come to: fetch rejects, response.json() rejects,
\* or a status and a parsed body.
Outcome(k, s, d) == [kind |-> k, status |-> s, data |-> d]
NoOutcome == Outcome("none", 0, NoDoc)
Outcomes(docs) ==
  {Outcome("throw", 0, NoDoc)}
    \cup {Outcome("parse", s, NoDoc) : s \in UnparsedStatuses}
    \cup {Outcome("json", s, d) : s \in Statuses, d \in docs}
Thrown(o) == o.kind \in {"throw", "parse"}

\* ------------------------------------------------------------- requests

StoredTokenEndpoints ==
  {"me-from-store", "locations", "create-event-type", "list-event-types",
   "update-event-type", "update-event-availability"}
WriteEndpoints == {"create-event-type", "update-event-type", "update-event-availability"}
ForwardEndpoints == StoredTokenEndpoints \cup {"me"}

Call(auth, body) == [auth |-> auth, body |-> body]
Request(ep, user, body, call) == [ep |-> ep, user |-> user, body |-> body, out |-> call, calls |-> 1]

\* A reply: who sent it, how many upstream calls the request made, what the
\* upstream call came to, and the status, body and Location sent to the caller.
Reply(ep, user, calls, up, status, doc, location) ==
  [ep |-> ep, user |-> user, calls |-> calls, up |-> up,
   status |-> status, body |-> doc, location |-> location]
NoReply == Reply("none", Absent, 0, NoOutcome, 0, NoDoc, Absent)

Suspend(r) ==
  /\ inflight' = inflight (+) SetToBag({r})
  /\ UNCHANGED <<storedToken, lastReply, lastOkTok, lastCb>>

Answer(rep) ==
  /\ lastReply' = rep
  /\ UNCHANGED <<storedToken, inflight, lastOkTok, lastCb>>

Init ==
  /\ storedToken = Null
  /\ inflight = EmptyBag
  /\ lastReply = NoReply
  /\ lastOkTok = Absent
  /\ lastCb = "none"

\* ------------------------------------------------------------ /callback

CallbackStart ==
  /\ BagCardinality(inflight) < MaxInFlight
  /\ Suspend(Request("callback", Absent, NoBody, Call(NoHeader, NoBody)))

\* Mutant of TokenAfterCallback: the catch block clears the token.
TokenAfterCallbackClearing(cur, o) == IF Thrown(o) THEN Null ELSE Get(o.data.access_token)

\* storedToken after the exchange came to o: line 108 runs unless an await threw.
TokenAfterCallback(cur, o) == IF Thrown(o) THEN cur ELSE Get(o.data.access_token)

CallbackReply(r, o) ==
  IF Thrown(o)
    THEN Reply(r.ep, r.user, r.calls, o, 500, ErrorDoc("Token exchange failed"), Absent)
    ELSE Reply(r.ep, r.user, r.calls, o, 302, NoDoc, "/dashboard.html")

CallbackResume ==
  \E r \in BagToSet(inflight), o \in Outcomes(TokenDocs) :
    /\ r.ep = "callback"
    /\ inflight' = inflight (-) SetToBag({r})
    /\ storedToken' = TokenAfterCallback(storedToken, o)
    /\ lastReply' = CallbackReply(r, o)
    /\ IF ~Thrown(o) /\ o.data.access_token \in Tokens
         THEN lastOkTok' = o.data.access_token /\ lastCb' = "ok"
         ELSE lastOkTok' = lastOkTok /\ lastCb' = "other"

\* ------------------------------------------------- forwarding endpoints

\* The generic message of each handler's catch block.
ErrorMessage(ep) ==
  CASE ep = "me" -> "Failed to fetch user info"
    [] ep = "me-from-store" -> "Failed to fetch user info"
    [] ep = "locations" -> "Failed to fetch locations"
    [] ep = "create-event-type" -> "Failed to create event type"
    [] ep = "list-event-types" -> "Failed to list event types"
    [] ep = "update-event-type" -> "Failed to update event type"
    [] ep = "update-event-availability" -> "Failed to update availability"

GenericErrors == {ErrorDoc(ErrorMessage(ep)) : ep \in ForwardEndpoints} \cup {ErrorDoc("Token exchange failed")}

NoTokenReply(ep, user) ==
  Reply(ep, user, 0, NoOutcome, 401, ErrorDoc("No token stored yet"), Absent)

\* Mutant of MissingUser: the parameter is never found missing.
MissingUserNever(user) == FALSE

\* `!user` on the query parameter.
MissingUser(user) == IsFalsy(Get(user))

\* Mutant of CoerceActive: truthiness instead of the two strict comparisons.
CoerceActiveTruthy(a) == IF a \in {Absent, JFalse} THEN JFalse ELSE JTrue

\* active: req.body.active === true || req.body.active === "true"
CoerceActive(a) == IF a = JTrue \/ a = JStrTrue THEN JTrue ELSE JFalse

\* { ...req.body, active: <coerced> }
CreateBody(body) == Body(TRUE, CoerceActive(body.active), body.name)

\* catch block: 500 with the handler's generic message.
FailReply(r, o) ==
  Reply(r.ep, r.user, r.calls, o, 500, ErrorDoc(ErrorMessage(r.ep)), Absent)

\* reply.send(data): the parsed body, with Fastify's default status 200.
ReadReply(r, o) ==
  IF Thrown(o) THEN FailReply(r, o)
  ELSE Reply(r.ep, r.user, r.calls, o, 200, o.data, Absent)

\* Mutant of WriteReply: response.ok is not looked at.
WriteReplyNoCheck(r, o) == ReadReply(r, o)

\* if (!response.ok) return reply.status(response.status).send(data); reply.send(data)
WriteReply(r, o) ==
  IF Thrown(o) THEN FailReply(r, o)
  ELSE IF ~ResponseOk(o.status)
    THEN Reply(r.ep, r.user, r.calls, o, o.status, o.data, Absent)
    ELSE Reply(r.ep, r.user, r.calls, o, 200, o.data, Absent)

\* The handler resumes after `await fetch` and `await response.json()` and
\* sends its reply; storedToken is not touched.
Deliver(r, rep) ==
  /\ inflight' = inflight (-) SetToBag({r})
  /\ lastReply' = rep
  /\ UNCHANGED <<storedToken, lastOkTok, lastCb>>

\* GET /me?token=
MeStart ==
  \E token \in {Absent, "t1"} :
    /\ BagCardinality(inflight) < MaxInFlight
    /\ Suspend(Request("me", Absent, NoBody, Call(Bearer(Get(token)), NoBody)))

MeResume ==
  \E r \in BagToSet(inflight), o \in Outcomes(ApiDocs) :
    /\ r.ep = "me"
    /\ Deliver(r, ReadReply(r, o))

\* GET /me-from-store
MeFromStoreStart ==
  /\ BagCardinality(inflight) < MaxInFlight
  /\ IF IsFalsy(storedToken)
       THEN Answer(NoTokenReply("me-from-store", Absent))
       ELSE Suspend(Request("me-from-store", Absent, NoBody, Call(Bearer(storedToken), NoBody)))

MeFromStoreResume ==
  \E r \in BagToSet(inflight), o \in Outcomes(ApiDocs) :
    /\ r.ep = "me-from-store"
    /\ Deliver(r, ReadReply(r, o))

\* GET /locations?user=
LocationsStart ==
  \E user \in {Absent, "u1"} :
    /\ BagCardinality(inflight) < MaxInFlight
    /\ IF IsFalsy(storedToken)
         THEN Answer(NoTokenReply("locations", user))
         ELSE IF MissingUser(user)
           THEN Answer(Reply("locations", user, 0, NoOutcome, 400, ErrorDoc("Missing user URI"), Absent))
           ELSE Suspend(Request("locations", user, NoBody, Call(Bearer(storedToken), NoBody)))

LocationsResume ==
  \E r \in BagToSet(inflight), o \in Outcomes(ApiDocs) :
    /\ r.ep = "locations"
    /\ Deliver(r, ReadReply(r, o))

\* POST /create-event-type
CreateEventTypeStart ==
  \E body \in CreateBodies :
    /\ BagCardinality(inflight) < MaxInFlight
    /\ IF IsFalsy(storedToken)
         THEN Answer(NoTokenReply("create-event-type", Absent))
         ELSE IF ~body.present
           \* req.body.active throws inside the try block, before fetch is called
           THEN Answer(Reply("create-event-type", Absent, 0, NoOutcome, 500,
                             ErrorDoc(ErrorMessage("create-event-type")), Absent))
           ELSE Suspend(Request("create-event-type", Absent, body,
                                Call(Bearer(storedToken), CreateBody(body))))

CreateEventTypeResume ==
  \E r \in BagToSet(inflight), o \in Outcomes(ApiDocs) :
    /\ r.ep = "create-event-type"
    /\ Deliver(r, WriteReply(r, o))

\* GET /list-event-types
ListEventTypesStart ==
  /\ BagCardinality(inflight) < MaxInFlight
  /\ IF IsFalsy(storedToken)
       THEN Answer(NoTokenReply("list-event-types", Absent))
       ELSE Suspend(Request("list-event-types", Absent, NoBody, Call(Bearer(storedToken), NoBody)))

ListEventTypesResume ==
  \E r \in BagToSet(inflight), o \in Outcomes(ApiDocs) :
    /\ r.ep = "list-event-types"
    /\ Deliver(r, ReadReply(r, o))

\* PATCH /update-event-type/:uuid
UpdateEventTypeStart ==
  \E body \in UpdateBodies :
    /\ BagCardinality(inflight) < MaxInFlight
    /\ IF IsFalsy(storedToken)
         THEN Answer(NoTokenReply("update-event-type", Absent))
         ELSE Suspend(Request("update-event-type", Absent, body, Call(Bearer(storedToken), body)))

UpdateEventTypeResume ==
  \E r \in BagToSet(inflight), o \in Outcomes(ApiDocs) :
    /\ r.ep = "update-event-type"
    /\ Deliver(r, WriteReply(r, o))

\* PATCH /update-event-availability
UpdateEventAvailabilityStart ==
  \E body \in UpdateBodies :
    /\ BagCardinality(inflight) < MaxInFlight
    /\ IF IsFalsy(storedToken)
         THEN Answer(NoTokenReply("update-event-availability", Absent))
         ELSE Suspend(Request("update-event-availability", Absent, body, Call(Bearer(storedToken), body)))

UpdateEventAvailabilityResume ==
  \E r \in BagToSet(inflight), o \in Outcomes(ApiDocs) :
    /\ r.ep = "update-event-availability"
    /\ Deliver(r, WriteReply(r, o))

Next ==
  \/ CallbackStart
  \/ CallbackResume
  \/ MeStart
  \/ MeResume
  \/ MeFromStoreStart
  \/ MeFromStoreResume
  \/ LocationsStart
  \/ LocationsResume
  \/ CreateEventTypeStart
  \/ CreateEventTypeResume
  \/ ListEventTypesStart
  \/ ListEventTypesResume
  \/ UpdateEventTypeStart
  \/ UpdateEventTypeResume
  \/ UpdateEventAvailabilityStart
  \/ UpdateEventAvailabilityResume

Spec == Init /\ [][Next]_vars

\* ---------------------------------------------------------------- claims

InFlight == BagToSet(inflight)
\* The requests suspended by the step: those with one more copy in flight.
Sent == {r \in BagToSet(inflight') : CopiesIn(r, inflight') > CopiesIn(r, inflight)}
\* The step resumed a suspended request and answered it.
Resumed == BagCardinality(inflight') < BagCardinality(inflight)

\* C1: as long as no /callback exchange has returned an access token, every
\* reply of a stored-token endpoint is 401 {error: "No token stored yet"},
\* sent without an upstream call, and no such endpoint has a call in flight.
C1_NoTokenMeans401 ==
  lastOkTok = Absent =>
    /\ \A r \in InFlight : r.ep \notin StoredTokenEndpoints
    /\ lastReply.ep \in StoredTokenEndpoints =>
         /\ lastReply.status = 401
         /\ lastReply.body = Doc(Absent, Absent, "No token stored yet")
         /\ lastReply.calls = 0
         /\ lastReply.up.kind = "none"

\* A rejected exchange has been processed and /locations was then refused.
C1_Witness ==
  /\ lastOkTok = Absent
  /\ lastCb = "other"
  /\ storedToken = Undefined
  /\ lastReply.ep = "locations"
  /\ lastReply.status = 401

\* C2: when a /callback exchange returns access token T the stored token
\* becomes exactly T, and while no later /callback has completed every call a
\* stored-token endpoint sends carries Authorization: Bearer T.
C2_StoredAndAttached ==
  [][ /\ (Resumed /\ lastReply'.ep = "callback" /\ lastReply'.up.kind = "json"
            /\ lastReply'.up.data.access_token \in Tokens)
          => storedToken' = lastReply'.up.data.access_token
      /\ lastCb = "ok" =>
           /\ storedToken = lastOkTok
           /\ \A r \in Sent : r.ep \in StoredTokenEndpoints
                => r.out.auth = "Bearer " \o lastOkTok ]_vars

\* After a second grant, a call is in flight with the second token attached.
C2_Witness ==
  /\ lastCb = "ok"
  /\ lastOkTok = "t2"
  /\ \E r \in InFlight : r.ep = "me-from-store" /\ r.out.auth = "Bearer t2"

\* C3 as stated: /locations without `user` is answered 400 whatever the token
\* state.
C3_Original ==
  (lastReply.ep = "locations" /\ lastReply.user = Absent) => lastReply.status = 400

\* C3 amended: /locations without `user` is answered 400 when a token is
\* stored and 401 when none is, in both cases without an upstream call.
C3_MissingUser ==
  [][ (lastReply' # lastReply /\ lastReply'.ep = "locations" /\ lastReply'.user = Absent)
        => /\ lastReply'.status = IF storedToken \in Tokens THEN 400 ELSE 401
           /\ lastReply'.calls = 0
           /\ inflight' = inflight ]_vars

\* With a token stored, /locations without `user` was answered 400.
C3_Witness ==
  /\ storedToken \in Tokens
  /\ lastReply.ep = "locations"
  /\ lastReply.user = Absent
  /\ lastReply.status = 400
  /\ lastReply.body = Doc(Absent, Absent, "Missing user URI")

\* C4: on the create/update endpoints an upstream answer with a non-2xx
\* status S and JSON body B is relayed as S with B, and one with a 2xx status
\* as 200 with B.
C4_WriteRelay ==
  (lastReply.ep \in WriteEndpoints /\ lastReply.up.kind = "json") =>
    /\ lastReply.body = lastReply.up.data
    /\ lastReply.status =
         IF lastReply.up.status \in 200..299 THEN 200 ELSE lastReply.up.status

\* An upstream 422 on /update-event-type was relayed as 422 with its body.
C4_Witness ==
  /\ lastReply.ep = "update-event-type"
  /\ lastReply.up = [kind |-> "json", status |-> 422, data |-> Doc(Absent, "m2", Absent)]
  /\ lastReply.status = 422
  /\ lastReply.body = Doc(Absent, "m2", Absent)

\* C5 as stated: once an exchange has returned an access token, a token stays
\* stored whatever requests follow.
C5_TokenPersists == lastOkTok # Absent => storedToken \in Tokens

\* C6 as stated: on every forwarding endpoint an upstream answer with a
\* non-2xx status S and JSON body B is relayed as S with B.
C6_EveryRelay ==
  (/\ lastReply.ep \in ForwardEndpoints
   /\ lastReply.up.kind = "json"
   /\ lastReply.up.status \notin 200..299) =>
    /\ lastReply.status = lastReply.up.status
    /\ lastReply.body = lastReply.up.data

\* C7: when the upstream call of /callback or of a forwarding endpoint throws
\* or its body does not parse, the request is answered 500 with a generic
\* error body, it has made one call and none is made again, and the stored
\* token is what it was.
C7_FailureIs500 ==
  [][ (Resumed /\ lastReply'.up.kind \in {"throw", "parse"})
        => /\ lastReply'.status = 500
           /\ lastReply'.body \in GenericErrors
           /\ lastReply'.calls = 1
           /\ Sent = {}
           /\ storedToken' = storedToken ]_vars

\* A token exchange threw while a token was stored, and the token is still there.
C7_Witness ==
  /\ lastReply.ep = "callback"
  /\ lastReply.up.kind = "throw"
  /\ lastReply.status = 500
  /\ lastOkTok = "t1"
  /\ storedToken = "t1"

\* C8: the body /create-event-type forwards has the inbound fields other than
\* `active` unchanged, and `active` as a boolean that is true exactly when the
\* inbound `active` is the boolean true or the string "true".
C8_ActiveCoerced ==
  \A r \in InFlight : r.ep = "create-event-type" =>
    /\ r.out.body.present
    /\ r.out.body.name = r.body.name
    /\ r.out.body.active \in {"true", "false"}
    /\ r.out.body.active = "true" <=> r.body.active \in {"true", "\"true\""}

\* Two creations are in flight: "true" went out as true, "false" as false.
C8_Witness ==
  /\ \E r \in InFlight : r.ep = "create-event-type" /\ r.body.active = "\"true\""
                          /\ r.out.body.active = "true"
  /\ \E r \in InFlight : r.ep = "create-event-type" /\ r.body.active = "\"false\""
                          /\ r.out.body.active = "false"

\* C9 as stated: once every /callback has completed, the stored token is the
\* access token of the exchange that returned one and was processed last.
C9_LastGrantWins ==
  (lastOkTok # Absent /\ \A r \in InFlight : r.ep # "callback") => storedToken = lastOkTok

\* C10: a call sent by a stored-token endpoint never carries an absent token,
\* also when /callback requests run concurrently.
C10_NeverBearerAbsent ==
  \A r \in InFlight : r.ep \in StoredTokenEndpoints =>
    /\ r.out.auth \notin {"Bearer null", "Bearer undefined", "Bearer "}
    /\ \E t \in Tokens : r.out.auth = "Bearer " \o t

\* A call is in flight with a token attached while a concurrent /callback has
\* since left storedToken undefined.
C10_Witness ==
  /\ storedToken = Undefined
  /\ \E r \in InFlight : r.ep = "update-event-availability" /\ r.out.auth = "Bearer t1"

====
